---- MODULE Spec2Model ----
(***************************************************************************)
(* A model of HoshinoAlgorithm's two containers:                           *)
(*   src/src/ds/bheap.rs        BinaryHeap<T, Cmp>, with T = u32           *)
(*   src/src/ds/binary_tree.rs  BinaryTree<T>, BinaryTreeNode<T>, DfsIter  *)
(*                                                                         *)
(* The Vec `inner` is a TLA+ sequence: the slot the code calls index i is  *)
(* inner[i + 1].  At(inn, i) reads it.                                     *)
(***************************************************************************)
EXTENDS Integers, Sequences, FiniteSets, TLC

VARIABLES
    inner,      \* BinaryHeap.inner: the backing Vec<T>
    compare,    \* BinaryHeap.compare: which comparator closure was injected
    ctor,       \* the constructor that built the heap
    built,      \* FALSE when from_source returned None: there is no heap
    source,     \* the Vec handed to from_source (<<>> for the other constructors)
    pushed,     \* history: the values passed to push, in order; dropped by swap, swap_unchecked and inner_mut
    raw,        \* history: TRUE once inner has been changed other than by push
    last,       \* the last call on the heap and what it returned
    nodes,      \* BinaryTree: the places that hold a Node; place 1 is root, 2n and 2n+1 are the children of n
    stack,      \* DfsIter.stack: Vec<(&BinaryTreeNode, u8)>, the top is the last entry
    yielded,    \* history: the Some(&value) items this cursor's next() has returned, in order
    labels,     \* BinaryTree: which value each Node holds
    lastNext,   \* what the last next() on this cursor returned, <<>> before the first
    events      \* history: every pop this cursor's next() has made, with what that pass pushed and returned

heapVars == <<inner, compare, ctor, built, source, pushed, raw, last>>
treeVars == <<nodes, stack, yielded, labels, lastNext, events>>
vars == <<inner, compare, ctor, built, source, pushed, raw, last,
          nodes, stack, yielded, labels, lastNext, events>>

(***************************************************************************)
(* Bounds of the model.                                                    *)
(***************************************************************************)
MaxPush == 4        \* push calls per heap (Spec)
MaxSurfaceLen == 3  \* length of inner (SurfaceSpec)
UsizeBits == 8      \* width given to usize
MaxDepth == 3       \* depth of the trees

UsizeMax == 2 ^ UsizeBits - 1

\* The values tests::push pushes (bheap.rs:226-232); repeats give ties.
Values == {2, 3, 4, 5}

\* alloc_zeroed: the slot new() puts at index 0 is the all-zero u32.
Zeroed == 0

(***************************************************************************)
(* Result<O>, Option<O> and the error kinds.                               *)
(***************************************************************************)
Ok(v) == [kind |-> "Ok", val |-> v]
ZeroIndex == [kind |-> "ZeroIndex", val |-> 0]
NoParent == [kind |-> "NoParent", val |-> 0]
OutOfBounds(i) == [kind |-> "OutOfBounds", val |-> i]
Panic == [kind |-> "Panic", val |-> 0]
Custom == [kind |-> "Custom", val |-> 0]
IsOk(r) == r.kind = "Ok"

None == <<>>
Some(v) == <<v>>
\* Result::ok()
ToOption(r) == IF IsOk(r) THEN Some(r.val) ELSE None

At(inn, i) == inn[i + 1]

\* The comparator closures: "max" is |a, b| u32::cmp(a, b) of tests::push,
\* "min" is the reversed one.
Comparators == {"max", "min"}
U32Cmp(a, b) == IF a < b THEN "Less" ELSE IF a = b THEN "Equal" ELSE "Greater"
\* A comparator under which a tie counts as Greater.
Compare_tieIsGreater(cmp, a, b) ==
    IF a = b THEN "Greater" ELSE IF cmp = "max" THEN U32Cmp(a, b) ELSE U32Cmp(b, a)

Compare(cmp, a, b) == IF cmp = "max" THEN U32Cmp(a, b) ELSE U32Cmp(b, a)

(***************************************************************************)
(* impl BinaryHeap: construct and helper                                   *)
(***************************************************************************)
\* A swap that copies one way only: slot a takes b's value, b keeps its own.
VecSwap_copy(inn, a, b) == [inn EXCEPT ![a + 1] = inn[b + 1]]

\* Vec::swap: panics on an index out of range before it moves anything.
VecSwap(inn, a, b) ==
    [k \in 1..Len(inn) |->
        IF k = a + 1 THEN inn[b + 1] ELSE IF k = b + 1 THEN inn[a + 1] ELSE inn[k]]

\* What a call leaves: its result, the Vec, and the index pairs it handed to
\* swap_unchecked, in order.
Outcome(res, inn, swaps) == [res |-> res, inner |-> inn, swaps |-> swaps]

swap_unchecked(inn, a, b) ==
    IF a < Len(inn) /\ b < Len(inn)
    THEN Outcome(Ok(0), VecSwap(inn, a, b), <<(<<a, b>>)>>)
    ELSE Outcome(Panic, inn, <<(<<a, b>>)>>)

\* check with <= for <.
check_offByOne(inn, index) ==
    IF index = 0 THEN ZeroIndex
    ELSE IF index <= Len(inn) THEN Ok(index)
    ELSE OutOfBounds(index)

check(inn, index) ==
    IF index = 0 THEN ZeroIndex
    ELSE IF index < Len(inn) THEN Ok(index)
    ELSE OutOfBounds(index)

\* swap that checks a only.
swap_secondUnchecked(inn, a, b) ==
    LET ca == check(inn, a)
    IN  IF ~IsOk(ca) THEN Outcome(ca, inn, <<>>)
        ELSE swap_unchecked(inn, ca.val, b)

swap(inn, a, b) ==
    LET ca == check(inn, a)
    IN  IF ~IsOk(ca) THEN Outcome(ca, inn, <<>>)
        ELSE LET cb == check(inn, b)
             IN  IF ~IsOk(cb) THEN Outcome(cb, inn, <<>>)
                 ELSE swap_unchecked(inn, ca.val, cb.val)

\* get without the check: Vec::get alone.
get_unchecked(inn, index) ==
    IF index < Len(inn) THEN Some(At(inn, index)) ELSE None

get(inn, index) ==
    IF ~IsOk(check(inn, index)) THEN None
    ELSE IF index < Len(inn) THEN Some(At(inn, index)) ELSE None

\* from_source without the is_empty test.
from_source_anyLength(src) == Some(src)

from_source(src) ==
    IF Len(src) = 0 THEN None ELSE Some(src)

new == <<Zeroed>>

with_capacity == <<>>

\* parent without the NoParent case: index 1 is given the sentinel's index.
parent_ofRoot(inn, idx) ==
    LET c == check(inn, idx)
    IN  IF ~IsOk(c) THEN c
        ELSE Ok(idx \div 2)

\* parent with the formula of a heap whose root is at index 0.
parent_zeroBased(inn, idx) ==
    LET c == check(inn, idx)
    IN  IF ~IsOk(c) THEN c
        ELSE IF idx = 1 THEN NoParent
        ELSE Ok((idx - 1) \div 2)

parent(inn, idx) ==
    LET c == check(inn, idx)
    IN  IF ~IsOk(c) THEN c
        ELSE IF idx = 1 THEN NoParent
        ELSE Ok(idx \div 2)

\* children with the formula of a heap whose root is at index 0.
children_zeroBased(inn, idx) ==
    LET c == check(inn, idx)
    IN  IF ~IsOk(c) THEN c
        ELSE Ok(<<ToOption(check(inn, idx * 2 + 1)), ToOption(check(inn, idx * 2 + 2))>>)

children(inn, idx) ==
    LET c == check(inn, idx)
    IN  IF ~IsOk(c) THEN c
        ELSE Ok(<<ToOption(check(inn, idx * 2)), ToOption(check(inn, idx * 2 + 1))>>)

\* self.inner.len() - 1 on usize: with len = 0 a build with overflow checks
\* panics and one without wraps to usize::MAX.
end(inn) ==
    IF Len(inn) >= 1 THEN {Ok(Len(inn) - 1)}
    ELSE {Panic, Ok(UsizeMax)}

(***************************************************************************)
(* impl BinaryHeap: insert                                                 *)
(***************************************************************************)
\* sink: the check, then todo!(), which panics.
sink(inn, cmp, target) ==
    LET c == check(inn, target)
    IN  IF ~IsOk(c) THEN Outcome(c, inn, <<>>)
        ELSE Outcome(Panic, inn, <<>>)

\* The recursive call of float, self.float(parent)?: an Err is passed up.
RECURSIVE float(_, _, _)
float(inn, cmp, target) ==
    LET c == check(inn, target)
    IN  IF ~IsOk(c) THEN Outcome(c, inn, <<>>)
        ELSE LET p == ToOption(parent(inn, c.val))
             IN  IF p = None THEN Outcome(Ok(0), inn, <<>>)
                 ELSE IF Compare(cmp, At(inn, c.val), At(inn, p[1])) = "Greater"
                      THEN LET s == swap_unchecked(inn, c.val, p[1])
                               r == float(s.inner, cmp, p[1])
                           IN  Outcome(r.res, r.inner, s.swaps \o r.swaps)
                      ELSE Outcome(Ok(0), inn, <<>>)

\* push without the float.
push_noFloat(inn, cmp, value) == Outcome(Ok(0), Append(inn, value), <<>>)

\* Extract-top as spec.md 4.1 requires it (bheap.rs has none): the root is
\* taken out, the last element put in its place, the Vec shortened by one and
\* the replacement handed to sink; a heap with no element fails with Custom.
extract_top(inn, cmp) ==
    IF Len(inn) <= 1 THEN Outcome(Custom, inn, <<>>)
    ELSE LET top == At(inn, 1)
             shorter == SubSeq(inn, 1, Len(inn) - 1)
             moved == IF Len(shorter) >= 2
                      THEN [shorter EXCEPT ![2] = inn[Len(inn)]]
                      ELSE shorter
             r == IF Len(moved) >= 2 THEN sink(moved, cmp, 1)
                  ELSE Outcome(Ok(0), moved, <<>>)
         IN  Outcome(IF IsOk(r.res) THEN Ok(top) ELSE r.res, r.inner, r.swaps)

\* inner.push(value); float(end()).  After the Vec::push the length is at
\* least 1, so end() is len - 1.  res is the Result of float, which push drops.
push(inn, cmp, value) ==
    LET appended == Append(inn, value)
        e == CHOOSE r \in end(appended) : TRUE
    IN  float(appended, cmp, e.val)

(***************************************************************************)
(* The heap as a state machine: one action per public operation.           *)
(***************************************************************************)
\* The from_source calls made: an empty Vec, a Vec that is a max-heap, one
\* that is not, and tests::construct (bheap.rs:191) with its () comparator.
TestSource == <<0, 1, 2, 3, 4, 5, 6, 7, 8>>
FromSourceCalls ==
    {<<(<<>>), "max">>, <<(<<0, 5, 2>>), "max">>, <<(<<0, 2, 5>>), "max">>,
     <<TestSource, "unit">>}

NoCall == [op |-> "none", args |-> <<>>, res |-> Ok(0), swaps |-> <<>>]
Call(op, args, res, swaps) == [op |-> op, args |-> args, res |-> res, swaps |-> swaps]

\* The indices a caller passes: 0, every slot, the length and one past it.
Indices == 0..(Len(inner) + 1)

TreeIdle ==
    /\ nodes = {}
    /\ labels = "distinct"
    /\ stack = <<>>
    /\ yielded = <<>>
    /\ lastNext = None
    /\ events = <<>>

InitNew ==
    /\ ctor = "new"
    /\ compare \in Comparators
    /\ inner = new
    /\ built = TRUE
    /\ source = <<>>

InitWithCapacity ==
    /\ ctor = "with_capacity"
    /\ compare \in Comparators
    /\ inner = with_capacity
    /\ built = TRUE
    /\ source = <<>>

InitFromSource ==
    /\ ctor = "from_source"
    /\ \E c \in FromSourceCalls :
          /\ source = c[1]
          /\ compare = c[2]
    /\ LET h == from_source(source)
       IN  /\ built = (h # None)
           /\ inner = IF h = None THEN <<>> ELSE h[1]

Init ==
    /\ \/ InitNew
       \/ InitWithCapacity
       \/ InitFromSource
    /\ pushed = <<>>
    /\ raw = FALSE
    /\ last = NoCall
    /\ TreeIdle

\* push is in the impl block that needs Cmp: Fn(&T, &T) -> Ordering.
Push(v) ==
    /\ built
    /\ compare \in Comparators
    /\ LET r == push(inner, compare, v)
       IN  /\ inner' = r.inner
           /\ last' = Call("push", <<v>>, r.res, r.swaps)
    /\ pushed' = IF raw THEN pushed ELSE Append(pushed, v)
    /\ UNCHANGED <<compare, ctor, built, source, raw>>
    /\ UNCHANGED treeVars

Parent(i) ==
    /\ built
    /\ last' = Call("parent", <<i>>, parent(inner, i), <<>>)
    /\ UNCHANGED <<inner, compare, ctor, built, source, pushed, raw>>
    /\ UNCHANGED treeVars

Children(i) ==
    /\ built
    /\ last' = Call("children", <<i>>, children(inner, i), <<>>)
    /\ UNCHANGED <<inner, compare, ctor, built, source, pushed, raw>>
    /\ UNCHANGED treeVars

Get(i) ==
    /\ built
    /\ last' = Call("get", <<i>>, get(inner, i), <<>>)
    /\ UNCHANGED <<inner, compare, ctor, built, source, pushed, raw>>
    /\ UNCHANGED treeVars

End ==
    /\ built
    /\ \E r \in end(inner) : last' = Call("end", <<>>, r, <<>>)
    /\ UNCHANGED <<inner, compare, ctor, built, source, pushed, raw>>
    /\ UNCHANGED treeVars

\* Once inner has been changed other than by push the heap has no push-only
\* history any more: raw is set and pushed is dropped.
Swap(a, b) ==
    /\ built
    /\ LET s == swap(inner, a, b)
       IN  /\ inner' = s.inner
           /\ raw' = (raw \/ IsOk(s.res))
           /\ pushed' = IF IsOk(s.res) THEN <<>> ELSE pushed
           /\ last' = Call("swap", <<a, b>>, s.res, s.swaps)
    /\ UNCHANGED <<compare, ctor, built, source>>
    /\ UNCHANGED treeVars

SwapUnchecked(a, b) ==
    /\ built
    /\ LET s == swap_unchecked(inner, a, b)
       IN  /\ inner' = s.inner
           /\ raw' = (raw \/ IsOk(s.res))
           /\ pushed' = IF IsOk(s.res) THEN <<>> ELSE pushed
           /\ last' = Call("swap_unchecked", <<a, b>>, s.res, s.swaps)
    /\ UNCHANGED <<compare, ctor, built, source>>
    /\ UNCHANGED treeVars

\* inner_mut hands out &mut Vec<T>: the caller overwrites a slot through it.
InnerMut(i, v) ==
    /\ built
    /\ i < Len(inner)
    /\ inner' = [inner EXCEPT ![i + 1] = v]
    /\ raw' = TRUE
    /\ pushed' = <<>>
    /\ last' = Call("inner_mut", <<i, v>>, Ok(0), <<>>)
    /\ UNCHANGED <<compare, ctor, built, source>>
    /\ UNCHANGED treeVars

ExtractTop ==
    /\ built
    /\ compare \in Comparators
    /\ LET r == extract_top(inner, compare)
       IN  /\ inner' = r.inner
           /\ last' = Call("extract_top", <<>>, r.res, r.swaps)
    /\ raw' = TRUE
    /\ UNCHANGED <<compare, ctor, built, source, pushed>>
    /\ UNCHANGED treeVars

\* Spec: a heap from any constructor, pushed to and queried.
Next ==
    \/ \E v \in Values : Len(pushed) < MaxPush /\ Push(v)
    \/ \E i \in Indices : Parent(i)
    \/ \E i \in Indices : Children(i)
    \/ \E i \in Indices : Get(i)
    \/ End

Spec == Init /\ [][Next]_vars

\* SurfaceSpec: the whole public surface, on short heaps of two values.
SurfaceValues == {2, 5}

SurfaceInit ==
    /\ Init
    /\ Len(inner) <= MaxSurfaceLen

SurfaceNext ==
    \/ \E v \in SurfaceValues : Len(inner) < MaxSurfaceLen /\ Push(v)
    \/ \E i \in Indices : Parent(i)
    \/ \E i \in Indices : Children(i)
    \/ \E i \in Indices : Get(i)
    \/ End
    \/ \E a \in Indices, b \in Indices : Swap(a, b)
    \/ \E a \in Indices, b \in Indices : SwapUnchecked(a, b)
    \/ \E i \in Indices, v \in SurfaceValues : InnerMut(i, v)

SurfaceSpec == SurfaceInit /\ [][SurfaceNext]_vars

\* ExtractSpec: pushes, then one extract-top.
ExtractNext ==
    \/ \E v \in Values : ~raw /\ Len(pushed) < MaxPush /\ Push(v)
    \/ ~raw /\ ExtractTop

ExtractSpec == Init /\ [][ExtractNext]_vars

(***************************************************************************)
(* binary_tree.rs.  A BinaryTreeNode is named by its place in the tree:    *)
(* place 1 is BinaryTree.root and the two boxed children of the Node at    *)
(* place n are at 2n and 2n + 1.  A place in t.nodes holds a Node, any     *)
(* other place holds a Leaf.                                               *)
(***************************************************************************)
Places == 1..(2 ^ MaxDepth - 1)

\* The values the Nodes hold: "distinct" gives place n the value n - 1, which
\* makes nodes {1, 2, 3, 4, 5} the tree of tests::dfs (0 over 1 and 2, 1 over
\* 3 and 4); "parity" repeats values.
Labelings == {"distinct", "parity"}
ValueAt(t, n) == IF t.labels = "distinct" THEN n - 1 ELSE n % 2

\* A tree owns its children: a Node below the root hangs from a Node.
Trees ==
    {[nodes |-> ns, labels |-> l] :
        ns \in {x \in SUBSET Places : \A n \in x : n = 1 \/ (n \div 2) \in x},
        l \in Labelings}

IsLeaf(t, n) == n \notin t.nodes

value(t, n) == IF IsLeaf(t, n) THEN None ELSE Some(ValueAt(t, n))

\* left() handing out the right child.
left_isRight(t, n) == IF IsLeaf(t, n) THEN n ELSE 2 * n + 1

left(t, n) == IF IsLeaf(t, n) THEN n ELSE 2 * n

\* right() handing out the left child.
right_isLeft(t, n) == IF IsLeaf(t, n) THEN n ELSE 2 * n

right(t, n) == IF IsLeaf(t, n) THEN n ELSE 2 * n + 1

\* The Item of DfsIter is &'r T: the reference into the Node, and what it reads.
Ref(t, n) == [node |-> n, value |-> value(t, n)[1]]

\* One pass through the body of next(): the entry popped, the entries pushed
\* before the pass returns or calls next() again, and the item it returns itself.
Pass(node, state, pushes, item) ==
    [pop |-> <<node, state>>, push |-> pushes, item |-> item]

\* The result of a pass that ends in `return self.next()`.
After(pass, r) == [r EXCEPT !.passes = <<pass>> \o @]

\* DfsIter::next, with its calls of itself.
RECURSIVE next(_, _)
next(t, stk) ==
    IF stk = <<>> THEN [item |-> None, stack |-> stk, passes |-> <<>>]
    ELSE LET node == stk[Len(stk)][1]
             state == stk[Len(stk)][2]
             popped == SubSeq(stk, 1, Len(stk) - 1)
         IN  IF IsLeaf(t, node)
             THEN After(Pass(node, state, <<>>, None), next(t, popped))
             ELSE IF state = 0
                  THEN [item |-> Some(Ref(t, node)),
                        stack |-> Append(popped, <<node, 1>>),
                        passes |-> <<Pass(node, state, <<(<<node, 1>>)>>, Some(Ref(t, node)))>>]
             ELSE IF state = 1
                  THEN LET pushes == <<(<<node, 2>>), (<<left(t, node), 0>>)>>
                       IN  After(Pass(node, state, pushes, None), next(t, popped \o pushes))
             ELSE IF state = 2
                  THEN LET pushes == <<(<<node, 3>>), (<<right(t, node), 0>>)>>
                       IN  After(Pass(node, state, pushes, None), next(t, popped \o pushes))
             ELSE After(Pass(node, state, <<>>, None), next(t, popped))

dfs == <<(<<1, 0>>)>>

Tree == [nodes |-> nodes, labels |-> labels]

HeapIdle ==
    /\ inner = <<>>
    /\ compare = "unit"
    /\ ctor = "none"
    /\ built = FALSE
    /\ source = <<>>
    /\ pushed = <<>>
    /\ raw = FALSE
    /\ last = NoCall

\* A tree, and the cursor dfs() has just made for it.
TreeInit ==
    /\ \E t \in Trees :
          /\ nodes = t.nodes
          /\ labels = t.labels
    /\ stack = dfs
    /\ yielded = <<>>
    /\ lastNext = <<>>
    /\ events = <<>>
    /\ HeapIdle

\* next() on a cursor that rewinds: the call that finds nothing left puts the
\* root back on the stack, and the traversal starts over.
IterNext_rewinds ==
    /\ LET r == next(Tree, stack)
       IN  /\ stack' = IF r.stack = <<>> THEN dfs ELSE r.stack
           /\ lastNext' = <<r.item>>
           /\ events' = IF r.stack = <<>> THEN <<>> ELSE events \o r.passes
           /\ yielded' = IF r.item = None THEN <<>> ELSE Append(yielded, r.item[1])
    /\ UNCHANGED <<nodes, labels>>
    /\ UNCHANGED heapVars

IterNext ==
    /\ LET r == next(Tree, stack)
       IN  /\ stack' = r.stack
           /\ lastNext' = <<r.item>>
           /\ events' = events \o r.passes
           /\ yielded' = IF r.item = None THEN yielded ELSE Append(yielded, r.item[1])
    /\ UNCHANGED <<nodes, labels>>
    /\ UNCHANGED heapVars

\* dfs() again: a new cursor, the old one dropped.
Dfs ==
    /\ stack' = dfs
    /\ yielded' = <<>>
    /\ lastNext' = <<>>
    /\ events' = <<>>
    /\ UNCHANGED <<nodes, labels>>
    /\ UNCHANGED heapVars

TreeNext ==
    \/ IterNext
    \/ Dfs

TreeSpec == TreeInit /\ [][TreeNext]_vars

\* CursorSpec: one cursor, from dfs() on, whose owner keeps calling next().
CursorNext ==
    \/ IterNext

CursorSpec == TreeInit /\ [][CursorNext]_vars /\ WF_vars(IterNext)

(***************************************************************************)
(* The properties checked.                                                 *)
(***************************************************************************)
\* A heap made by new(cmp) that has only been pushed to.
PushedNew == ctor = "new" /\ ~raw

\* a outranks b: compare(a, b) is Greater, read off the order on u32.
Outranks(cmp, a, b) == IF cmp = "max" THEN a > b ELSE a < b

HeapProperty(inn, cmp) ==
    \A i \in 2..(Len(inn) - 1) : ~Outranks(cmp, At(inn, i), At(inn, i \div 2))

\* C1: in a heap made by new(cmp) and only pushed to, no element at an index
\* 2..end() outranks the element at half its index.
C1_HeapPropertyAfterPush == PushedNew => HeapProperty(inner, compare)

C1_Witness ==
    /\ PushedNew
    /\ Len(pushed) = MaxPush
    /\ last.op = "push"
    /\ Len(last.swaps) = 2

\* The reference sift-up.  The new value v sits at index n and climbs over
\* the ancestors n/2, n/4, ... it outranks, which each move down one level.
Anc(n, m) == n \div (2 ^ m)
Climb(app, cmp) ==
    LET n == Len(app) - 1
        v == At(app, n)
        ok(j) == Anc(n, j) >= 1 /\ \A m \in 1..j : Outranks(cmp, v, At(app, Anc(n, m)))
    IN  CHOOSE j \in 0..n : ok(j) /\ (j = n \/ ~ok(j + 1))
SiftUp(inn, cmp, v) ==
    LET app == Append(inn, v)
        n == Len(app) - 1
        k == Climb(app, cmp)
    IN  [x \in 1..Len(app) |->
            LET i == x - 1
            IN  IF i = Anc(n, k) THEN v
                ELSE IF \E m \in 0..(k - 1) : i = Anc(n, m)
                     THEN At(app, i \div 2)
                     ELSE At(app, i)]
SiftUpSwaps(inn, cmp, v) ==
    LET app == Append(inn, v)
        n == Len(app) - 1
    IN  [m \in 1..Climb(app, cmp) |-> <<Anc(n, m - 1), Anc(n, m)>>]
RECURSIVE RefHeap(_, _)
RefHeap(cmp, seq) ==
    IF seq = <<>> THEN <<0>>
    ELSE SiftUp(RefHeap(cmp, SubSeq(seq, 1, Len(seq) - 1)), cmp, seq[Len(seq)])

\* tests::push: 5, 2, 3, 4 under u32::cmp.
PushExample ==
    /\ pushed = <<5>> => inner = <<0, 5>>
    /\ pushed = <<5, 2>> => inner = <<0, 5, 2>>
    /\ pushed = <<5, 2, 3>> => inner = <<0, 5, 2, 3>>
    /\ pushed = <<5, 2, 3, 4>> => inner = <<0, 5, 4, 3, 2>>

\* C2: on a heap made by new(cmp), the pushes leave the backing sequence the
\* reference sift-up leaves, each push swaps exactly the child/parent pairs
\* the reference climbs over (none on a tie), and 5, 2, 3, 4 under the max
\* comparator give [5], [5,2], [5,2,3], [5,4,3,2] behind the sentinel.
C2_PushIsSiftUp ==
    PushedNew =>
        /\ inner = RefHeap(compare, pushed)
        /\ last.op = "push" =>
              last.swaps = SiftUpSwaps(RefHeap(compare, SubSeq(pushed, 1, Len(pushed) - 1)),
                                       compare, last.args[1])
        /\ compare = "max" => PushExample

C2_Witness ==
    /\ PushedNew
    /\ compare = "max"
    /\ pushed = <<5, 2, 3, 4>>
    /\ inner = <<0, 5, 4, 3, 2>>
    /\ last.op = "push"
    /\ last.swaps = <<(<<4, 2>>)>>

\* Pre-order: a Node, then its left subtree, then its right subtree.
RECURSIVE PreOrder(_, _)
PreOrder(t, n) ==
    IF n \notin t.nodes THEN <<>>
    ELSE <<[node |-> n, value |-> ValueAt(t, n)]>> \o PreOrder(t, 2 * n) \o PreOrder(t, 2 * n + 1)

IsPrefix(a, b) == Len(a) <= Len(b) /\ a = SubSeq(b, 1, Len(a))
Drained == lastNext = <<None>>
YieldedValues == [i \in 1..Len(yielded) |-> yielded[i].value]

\* C3: what next() has yielded is always the start of the tree's pre-order,
\* and once next() has returned None it is all of it: every Node once, no
\* Leaf; the tree 0(1(3,4),2) gives 0, 1, 3, 4, 2.
C3_DfsIsPreOrder ==
    /\ IsPrefix(yielded, PreOrder(Tree, 1))
    /\ Drained =>
          /\ yielded = PreOrder(Tree, 1)
          /\ {yielded[i].node : i \in 1..Len(yielded)} = nodes
          /\ Len(yielded) = Cardinality(nodes)
          /\ (nodes = {1, 2, 3, 4, 5} /\ labels = "distinct") =>
                YieldedValues = <<0, 1, 3, 4, 2>>

C3_Witness ==
    /\ nodes = {1, 2, 3, 4, 5}
    /\ labels = "distinct"
    /\ Drained
    /\ YieldedValues = <<0, 1, 3, 4, 2>>

\* An index the heap does not take, and the error it is to be refused with.
Invalid(inn, i) == i = 0 \/ i >= Len(inn)
IndexError(inn, i) == IF i = 0 THEN ZeroIndex ELSE OutOfBounds(i)
Refused(i) ==
    /\ last'.res.kind = IndexError(inner, i).kind
    /\ last'.res.val = IndexError(inner, i).val
    /\ inner' = inner

\* C4 as claimed: parent, children and swap given an index that is 0 or not
\* below the length, swap as either argument, fail with ZeroIndex or with
\* OutOfBounds of that index, and leave the heap as it was.
C4_Original ==
    [][/\ (last'.op \in {"parent", "children"} /\ Invalid(inner, last'.args[1])) =>
              Refused(last'.args[1])
       /\ last'.op = "swap" =>
              \A k \in 1..2 : Invalid(inner, last'.args[k]) => Refused(last'.args[k])]_vars

\* C4, amended: swap reports its first argument's error when that is invalid,
\* and its second argument's only when the first is valid.
C4_BoundsErrors ==
    [][/\ (last'.op \in {"parent", "children"} /\ Invalid(inner, last'.args[1])) =>
              Refused(last'.args[1])
       /\ (last'.op = "swap" /\ Invalid(inner, last'.args[1])) =>
              Refused(last'.args[1])
       /\ (last'.op = "swap" /\ ~Invalid(inner, last'.args[1])
              /\ Invalid(inner, last'.args[2])) =>
              Refused(last'.args[2])]_vars

C4_Witness ==
    /\ Len(inner) = 3
    /\ last.op = "swap"
    /\ last.args = <<3, 0>>
    /\ last.res = OutOfBounds(3)

\* C5 as claimed: parent(1) is NoParent on every heap, and parent(i) is
\* i / 2 for 2 <= i < length.
C5_Original ==
    last.op = "parent" =>
        /\ last.args[1] = 1 => last.res = NoParent
        /\ (2 <= last.args[1] /\ last.args[1] < Len(inner)) =>
              last.res = Ok(last.args[1] \div 2)

\* C5, amended: parent(1) is NoParent on a heap with an element at index 1
\* and OutOfBounds(1) on one without; parent(i) is i / 2 for 2 <= i < length.
C5_Parent ==
    last.op = "parent" =>
        /\ (last.args[1] = 1 /\ Len(inner) >= 2) => last.res = NoParent
        /\ (last.args[1] = 1 /\ Len(inner) < 2) => last.res = OutOfBounds(1)
        /\ (2 <= last.args[1] /\ last.args[1] < Len(inner)) =>
              last.res = Ok(last.args[1] \div 2)

C5_Witness ==
    /\ ctor = "new"
    /\ Len(inner) = 1
    /\ last.op = "parent"
    /\ last.args = <<1>>
    /\ last.res = OutOfBounds(1)

\* C6: children(i) of an index 1 <= i < length is Ok of the pair (2i if
\* below the length, 2i + 1 if below the length), an index not below the
\* length being None.
InBounds(inn, c) == IF c < Len(inn) THEN Some(c) ELSE None
C6_Children ==
    (last.op = "children" /\ 1 <= last.args[1] /\ last.args[1] < Len(inner)) =>
        /\ last.res.kind = "Ok"
        /\ last.res.val = <<InBounds(inner, 2 * last.args[1]),
                            InBounds(inner, 2 * last.args[1] + 1)>>

C6_Witness ==
    /\ source = TestSource
    /\ last.op = "children"
    /\ last.args = <<4>>
    /\ last.res.kind = "Ok"
    /\ last.res.val = <<Some(8), None>>

\* C7: when parent(i) is Ok(p), children(p) is Ok and holds i; when
\* children(i) is Ok, parent of each child it holds is Ok(i).
C7_ParentChildConsistency ==
    /\ (last.op = "parent" /\ IsOk(last.res)) =>
          LET c == children(inner, last.res.val)
          IN  /\ IsOk(c)
              /\ \E k \in 1..2 : c.val[k] = Some(last.args[1])
    /\ (last.op = "children" /\ IsOk(last.res)) =>
          \A k \in 1..2 :
              last.res.val[k] # None =>
                  parent(inner, last.res.val[k][1]) = Ok(last.args[1])

C7_Witness ==
    /\ PushedNew
    /\ last.op = "children"
    /\ last.args = <<2>>
    /\ last.res.kind = "Ok"
    /\ last.res.val = <<Some(4), None>>

\* The heap new(cmp) is after the pushes of seq.
RECURSIVE PushAll(_, _, _)
PushAll(inn, cmp, seq) ==
    IF seq = <<>> THEN inn
    ELSE push(PushAll(inn, cmp, SubSeq(seq, 1, Len(seq) - 1)), cmp, seq[Len(seq)]).inner

\* C8 as claimed: a heap made by with_capacity and only pushed to is the heap
\* new(cmp) is after the same pushes: the sentinel at index 0, the k pushed
\* values at 1..k, each there for get, and the heap property.
C8_Original ==
    (ctor = "with_capacity" /\ ~raw) =>
        /\ inner = PushAll(new, compare, pushed)
        /\ Len(inner) = Len(pushed) + 1
        /\ \A k \in 1..Len(pushed) : get(inner, k) # None
        /\ HeapProperty(inner, compare)

\* The elements of the heap that are not the sentinel.
RealElements ==
    Len(pushed) + (IF ctor = "from_source" THEN Len(source) - 1 ELSE 0)

\* C9 as claimed: on a heap from new, from_source or with_capacity that has
\* only been pushed to, end() is the length less one, which is the number of
\* real elements, with no panic and no wrap-around.
C9_Original ==
    (last.op = "end" /\ ~raw) =>
        /\ last.res = Ok(Len(inner) - 1)
        /\ last.res.val = RealElements

\* C10 as claimed: whatever the last call handed to swap_unchecked, or wrote
\* through inner_mut, was an index that passes check.
C10_Original ==
    /\ \A k \in 1..Len(last.swaps) :
          \A j \in 1..2 : IsOk(check(inner, last.swaps[k][j]))
    /\ last.op = "inner_mut" => IsOk(check(inner, last.args[1]))

\* C11: swap(a, b) with both indices valid returns Ok and leaves the Vec with
\* the elements at a and b exchanged and every other slot and the length as
\* they were; with an invalid index it returns that index's error, a's when
\* both are invalid, and leaves the Vec as it was.
C11_Swap ==
    [][last'.op = "swap" =>
          LET a == last'.args[1]
              b == last'.args[2]
          IN  IF ~Invalid(inner, a) /\ ~Invalid(inner, b)
              THEN /\ last'.res.kind = "Ok"
                   /\ Len(inner') = Len(inner)
                   /\ At(inner', a) = At(inner, b)
                   /\ At(inner', b) = At(inner, a)
                   /\ \A i \in 0..(Len(inner) - 1) :
                         i \notin {a, b} => At(inner', i) = At(inner, i)
              ELSE IF Invalid(inner, a) THEN Refused(a)
              ELSE Refused(b)]_vars

C11_Witness ==
    /\ source = <<0, 5, 2>>
    /\ inner = <<0, 2, 5>>
    /\ last.op = "swap"
    /\ last.args = <<1, 2>>
    /\ last.res.kind = "Ok"

\* C12: get(index) is Some of the element at index when 1 <= index < length,
\* and None when index is 0 or not below the length.
C12_Get ==
    last.op = "get" =>
        IF Invalid(inner, last.args[1])
        THEN last.res = None
        ELSE last.res = Some(At(inner, last.args[1]))

C12_Witness ==
    /\ PushedNew
    /\ Len(inner) >= 2
    /\ last.op = "get"
    /\ last.args = <<0>>
    /\ last.res = None

\* C13: from_source returns None exactly when the Vec is empty, and otherwise
\* a heap whose inner is the Vec as supplied, in the heap property or not.
C13_FromSource ==
    ctor = "from_source" =>
        /\ built <=> source # <<>>
        /\ (built /\ pushed = <<>> /\ ~raw) => inner = source

C13_Witness ==
    /\ ctor = "from_source"
    /\ built
    /\ source = <<0, 2, 5>>
    /\ compare = "max"
    /\ inner = <<0, 2, 5>>
    /\ ~HeapProperty(inner, compare)

\* C14 as claimed: after pushes on a heap made by new(cmp) and one
\* extract-top, the call has returned an element, the heap holds one element
\* fewer and is in the heap property, and no remaining element outranks the
\* one returned.
C14_Original ==
    (ctor = "new" /\ pushed # <<>> /\ last.op = "extract_top") =>
        /\ last.res.kind = "Ok"
        /\ Len(inner) = Len(pushed)
        /\ HeapProperty(inner, compare)
        /\ \A i \in 1..(Len(inner) - 1) : ~Outranks(compare, At(inner, i), last.res.val)

\* C15: a cursor whose owner keeps calling next() comes, after finitely many
\* calls, to a call that returns None with the stack empty, and from then on
\* every state is that one: each further call returns None, the stack stays
\* empty, and nothing more is yielded.
C15_FiniteSinglePass == <>[](Drained /\ stack = <<>>)

C15_Witness ==
    /\ nodes = {1, 2, 3, 4, 5}
    /\ Drained
    /\ stack = <<>>
    /\ Len(yielded) = 5

\* The states in which node n has been popped, in order, and the number of
\* times it has been pushed with state 0, the push by dfs() included.
StatesOf(n) ==
    LET of == SelectSeq(events, LAMBDA e : e.pop[1] = n)
    IN  [k \in 1..Len(of) |-> of[k].pop[2]]
PushedFresh(n) ==
    Cardinality({<<k, j>> \in (1..Len(events)) \X {1, 2} :
                    j <= Len(events[k].push) /\ events[k].push[j] = <<n, 0>>})
    + (IF n = 1 THEN 1 ELSE 0)

\* What the pass that popped (n, state) is to push and return.
PassRule(e) ==
    LET n == e.pop[1]
        state == e.pop[2]
    IN  IF n \notin nodes THEN e.push = <<>> /\ e.item = None
        ELSE CASE state = 0 -> /\ e.item = Some([node |-> n, value |-> ValueAt(Tree, n)])
                               /\ e.push = <<(<<n, 1>>)>>
               [] state = 1 -> e.item = None /\ e.push = <<(<<n, 2>>), (<<2 * n, 0>>)>>
               [] state = 2 -> e.item = None /\ e.push = <<(<<n, 3>>), (<<2 * n + 1, 0>>)>>
               [] state = 3 -> e.item = None /\ e.push = <<>>
               [] OTHER -> FALSE

\* C16: every pass of next() follows the rule of the state it popped (0 yields
\* and re-pushes with 1, 1 re-pushes with 2 and pushes the left child with 0,
\* 2 re-pushes with 3 and pushes the right child with 0, 3 discards, a Leaf is
\* discarded without a yield); each Node is popped in the states 0, 1, 2, 3 in
\* that order and pushed with state 0 at most once, and when the traversal
\* has ended each Node has been through all four and was pushed with state 0
\* exactly once.
C16_StateMachine ==
    /\ \A k \in 1..Len(events) : PassRule(events[k])
    /\ \A n \in nodes :
          /\ IsPrefix(StatesOf(n), <<0, 1, 2, 3>>)
          /\ PushedFresh(n) <= 1
          /\ Drained => StatesOf(n) = <<0, 1, 2, 3>> /\ PushedFresh(n) = 1

C16_Witness ==
    /\ nodes = {1, 2, 3, 4, 5}
    /\ Drained
    /\ Len(events) = 26
    /\ StatesOf(5) = <<0, 1, 2, 3>>
    /\ PushedFresh(5) = 1

\* C17: a push on a heap made by new(cmp) and only pushed to hands
\* swap_unchecked only pairs (target, parent) with target >= 2, parent =
\* target / 2 >= 1 and both below the length; the first target is end(), each
\* later target is the parent of the pair before (so the indices fall
\* strictly, and end at 1 at the latest), and float returns Ok.
C17_FloatSwapsInBounds ==
    (PushedNew /\ last.op = "push") =>
        /\ last.res.kind = "Ok"
        /\ \A k \in 1..Len(last.swaps) :
              LET target == last.swaps[k][1]
                  above == last.swaps[k][2]
              IN  /\ target >= 2
                  /\ target < Len(inner)
                  /\ above = target \div 2
                  /\ above >= 1
                  /\ above < target
                  /\ target = IF k = 1 THEN Len(inner) - 1 ELSE last.swaps[k - 1][2]

C17_Witness ==
    /\ PushedNew
    /\ compare = "min"
    /\ last.op = "push"
    /\ last.res.kind = "Ok"
    /\ last.swaps = <<(<<4, 2>>), (<<2, 1>>)>>

\* C19: in a heap made by new(cmp), only pushed to and not empty, no element
\* at an index 1..end() outranks the element at index 1.
C19_RootIsTop ==
    (PushedNew /\ pushed # <<>>) =>
        \A i \in 1..(Len(inner) - 1) : Compare(compare, At(inner, i), At(inner, 1)) # "Greater"

C19_Witness ==
    /\ PushedNew
    /\ compare = "min"
    /\ pushed = <<5, 4, 3, 2>>
    /\ At(inner, 1) = 2

\* The number of real slots (index 1 and up) of inn that hold x.
Count(inn, x) == Cardinality({i \in 1..(Len(inn) - 1) : At(inn, i) = x})

\* C18: a push of v on a heap made by new(cmp) and only pushed to makes inner
\* one longer, leaves index 0 as it was, adds one v to the multiset of the
\* real elements and nothing else, and changes no old slot other than the
\* ancestors of the new last index.
C18_PushFrame ==
    [][(PushedNew /\ last'.op = "push") =>
          LET v == last'.args[1]
              n == Len(inner)
          IN  /\ Len(inner') = Len(inner) + 1
              /\ At(inner', 0) = At(inner, 0)
              /\ \A x \in Values \cup {Zeroed} :
                    Count(inner', x) = Count(inner, x) + (IF x = v THEN 1 ELSE 0)
              /\ \A i \in 1..(n - 1) :
                    At(inner', i) # At(inner, i) => \E m \in 1..n : i = Anc(n, m)]_vars

C18_Witness ==
    /\ PushedNew
    /\ compare = "max"
    /\ pushed = <<2, 3, 4, 5>>
    /\ last.op = "push"
    /\ last.args = <<5>>
    /\ inner = <<0, 5, 4, 3, 2>>

\* The depth of place n, the root being at depth 1.
Depth(n) == CHOOSE d \in 1..(n + 1) : 2 ^ (d - 1) <= n /\ n < 2 ^ d

\* The stack as the chain from the root down to the Node just yielded.
AncestorChain ==
    /\ stack # <<>>
    /\ yielded # <<>>
    /\ lastNext = <<Some(yielded[Len(yielded)])>>
    /\ stack[1][1] = 1
    /\ stack[Len(stack)] = <<yielded[Len(yielded)].node, 1>>
    /\ stack[Len(stack)][1] \in nodes
    /\ \A k \in 1..(Len(stack) - 1) :
          /\ stack[k][1] \in nodes
          /\ stack[k][2] \in {2, 3}
          /\ stack[k + 1][1] = IF stack[k][2] = 2 THEN 2 * stack[k][1] ELSE 2 * stack[k][1] + 1
    /\ Len(stack) <= Depth(yielded[Len(yielded)].node)

\* C20: between two calls of next() the stack is empty, or the single entry
\* (root, 0) of a cursor not yet advanced, or the chain from the root to the
\* Node just yielded: the root at the bottom, that Node on top with state 1,
\* below it only Nodes with state 2 or 3, the left child above a 2 and the
\* right child above a 3, and no more entries than that Node is deep.
C20_StackShape ==
    \/ stack = <<>>
    \/ stack = dfs /\ lastNext = <<>>
    \/ AncestorChain

C20_Witness ==
    /\ {1, 2, 5} \subseteq nodes
    /\ stack = <<(<<1, 2>>), (<<2, 3>>), (<<5, 1>>)>>
    /\ yielded[Len(yielded)].node = 5

====
